---- MODULE Spec2Model ----
(***************************************************************************)
(* Model of build_scripts/deploy_lambdas.py: the LambdaDeployer that        *)
(* packages Lambda function directories, uploads them to S3, repoints the   *)
(* Lambda functions and records each deployment in DynamoDB, and that can   *)
(* roll a function back to its previously recorded deployment.              *)
(*                                                                          *)
(* One behaviour is a sequence of runs of the script (main) against the     *)
(* same AWS account.  The S3 buckets, the DynamoDB table, the Lambda        *)
(* functions and /tmp outlive a run; everything else is rebuilt by main.    *)
(* Inside a run the units are processed by the threads of the pool, one     *)
(* step per external call, so the steps of different units interleave.      *)
(*                                                                          *)
(* The DynamoDB table is modelled as the script uses it: put_item adds an   *)
(* item, and a query with ScanIndexForward=False answers the items of       *)
(* (function_name, environment) most recent first.                          *)
(***************************************************************************)
EXTENDS Integers, Sequences, FiniteSets, TLC

\* ---------------------------------------------------------------- constants
MAX_WORKERS == 5

\* Bounds of the model.
MaxRuns == 4          \* runs of the script when one function is discovered
MaxRunsFanOut == 1    \* runs of the script when several functions are discovered

\* The function directories find_lambda_functions can discover.
LambdaDirs == {"lambdas/billing/f1", "lambdas/orders/f2"}

\* The digests calculate_hash can return for the source trees.
Fingerprints == {"aaa", "bbb", "ccc"}

\* The environments of env_config.
Environments == {"dev", "qa", "prod"}

\* The repository layouts: the directories find_lambda_functions discovers.
LambdaLayouts == {{"lambdas/billing/f1"}, LambdaDirs}

NoHash == ""
NoCode == <<>>

\* os.path.basename(lambda_dir)
basename(d) ==
    CASE d \in {"lambdas/billing/f1", "lambdas/orders/f1"} -> "f1"
      [] d = "lambdas/orders/f2" -> "f2"
      [] d = "lambdas/orders/f3" -> "f3"
      [] d = "lambdas/orders/f4" -> "f4"
      [] d = "lambdas/orders/f5" -> "f5"
      [] d = "lambdas/orders/f6" -> "f6"

FunctionNames == {basename(d) : d \in LambdaDirs}

\* f"{function_name}/{code_hash}/function.zip"
s3_key(function_name, code_hash) == <<function_name, code_hash, "function.zip">>

\* f"{function_name}_{self.environment}"
lambda_name(function_name, env) == <<function_name, env>>

\* os.path.join(TEMP_DIR, f"{function_name}.zip")
zip_path(function_name) == <<"/tmp", function_name>>

Range(s) == {s[i] : i \in 1..Len(s)}

VARIABLES
    \* the AWS account and the host
    s3,              \* objects present: set of <<bucket, key>>
    table,           \* lambda-deployments: (function_name, environment) -> items, oldest first
    lambda_code,     \* lambda name -> S3 key of its code, or NoCode
    tmp,             \* zip files present in TEMP_DIR
    tree,            \* lambda_dir -> digest of its present contents
    \* the process
    phase,           \* "idle" | "fanout" | "shutdown" | "exited" | "aborted"
    run,             \* runs started so far
    lambda_functions,\* directories discovered
    environment, is_rollback, specific_lambdas,
    pc,              \* lambda_dir -> position of its process_lambda call ("killed": cut off)
    code_hash,       \* lambda_dir -> local code_hash of process_lambda
    existing_hash,   \* lambda_dir -> local existing_hash of process_lambda
    outcome,         \* lambda_dir -> "none" | "Skip" | "Deploy" | "Rollback" | "Fail"
    calls,           \* lambda_dir -> writing AWS calls issued in this run, in order
    collected,       \* futures consumed by as_completed
    success_count, failure_count,
    exit_code,       \* -1 while no process has exited
    \* history
    appended,        \* (function_name, environment) -> items put, in order
    deployed,        \* (function_name, environment) -> process_lambda calls that ended in Deploy
    activated,       \* <<lambda name, key>> of every update_function_code that succeeded
    \* one source tree and its hashing, followed file by file
    fs,              \* relative directory -> file name -> bytes of the file
    walk,            \* two enumerations os.walk can give of fs
    digest,          \* the hexdigest calculate_hash returns for each of them
    \* the process before this one, where successive runs are compared
    last_run         \* <<>>, or << its is_rollback and the calls it issued >>

vars == <<s3, table, lambda_code, tmp, tree, phase, run, lambda_functions,
          environment, is_rollback, specific_lambdas, pc, code_hash,
          existing_hash, outcome, calls, collected, success_count, failure_count, exit_code,
          appended, deployed, activated, fs, walk, digest, last_run>>

aws == <<s3, table, lambda_code>>
config == <<lambda_functions, environment, is_rollback, specific_lambdas>>
counts == <<collected, success_count, failure_count>>
history == <<appended, deployed, activated>>
locals == <<code_hash, existing_hash>>
hasher == <<fs, walk, digest>>

LedgerKeys == FunctionNames \X Environments

\* ------------------------------------------------------------ configuration
\* environment.upper() in f'S3_BUCKET_{environment.upper()}'
upper(e) == CASE e = "dev" -> "DEV" [] e = "qa" -> "QA" [] e = "prod" -> "PROD"
              [] e = "staging" -> "STAGING" [] OTHER -> ""

BucketVarNames == {"S3_BUCKET_DEV", "S3_BUCKET_PROD", "S3_BUCKET_STAGING"}

\* os.environ as main finds it: the variables _get_environment_config reads,
\* each S3_BUCKET_* variable unset, blank or naming a bucket.
environ(rb, ev, bn, sl, dev, prod, staging) ==
    [IS_ROLLBACK |-> rb, ENVIRONMENT |-> ev, BRANCH_NAME |-> bn, SPECIFIC_LAMBDAS |-> sl,
     S3_BUCKET |-> [v \in BucketVarNames |->
                      CASE v = "S3_BUCKET_DEV" -> dev [] v = "S3_BUCKET_PROD" -> prod
                        [] OTHER -> staging]]

OsEnvirons ==
    { environ(FALSE, "", "feature/x", <<>>, "named", "named", "unset"),
      environ(FALSE, "", "main", <<>>, "named", "named", "unset"),
      environ(TRUE, "dev", "main", <<>>, "named", "named", "unset"),
      environ(TRUE, "dev", "main", <<"f2">>, "named", "named", "unset"),
      environ(FALSE, "", "main", <<>>, "named", "unset", "unset"),
      environ(FALSE, "", "feature/x", <<>>, "blank", "named", "unset"),
      environ(TRUE, "", "main", <<>>, "named", "named", "unset"),
      environ(TRUE, "staging", "main", <<>>, "named", "named", "named") }

\* The bucket a named S3_BUCKET_<ENV> variable holds.
s3_bucket(env) == <<"bucket", env>>

\* The environment the branch name selects on a forward deploy.
branch_environment(branch_name) ==
    IF branch_name = "feature/x" THEN "dev"
    ELSE IF branch_name = "qa" THEN "qa"
    ELSE IF branch_name = "main" THEN "prod"
    ELSE "dev"

\* Mutant: the required S3_BUCKET_<ENV> variable is not checked for presence.
get_environment_config_unchecked(os_environ) ==
    LET env == IF ~os_environ.IS_ROLLBACK THEN branch_environment(os_environ.BRANCH_NAME)
               ELSE os_environ.ENVIRONMENT
        required == "S3_BUCKET_" \o upper(env)
    IN  IF env \notin Environments THEN [error |-> "ConfigurationError"]
        ELSE IF os_environ.S3_BUCKET[required] = "blank" THEN [error |-> "ConfigurationError"]
        ELSE [error |-> "none", environment |-> env, is_rollback |-> os_environ.IS_ROLLBACK,
              specific_lambdas |-> os_environ.SPECIFIC_LAMBDAS]

\* _get_environment_config: the tuple it returns, or the error it raises.
get_environment_config(os_environ) ==
    LET env == IF ~os_environ.IS_ROLLBACK THEN branch_environment(os_environ.BRANCH_NAME)
               ELSE os_environ.ENVIRONMENT
        required == "S3_BUCKET_" \o upper(env)
        missing == required \notin BucketVarNames \/ os_environ.S3_BUCKET[required] = "unset"
    IN  IF missing THEN [error |-> "ConfigurationError"]
        ELSE IF env \notin Environments THEN [error |-> "ConfigurationError"]
        ELSE IF os_environ.S3_BUCKET[required] = "blank" THEN [error |-> "ConfigurationError"]
        ELSE [error |-> "none", environment |-> env, is_rollback |-> os_environ.IS_ROLLBACK,
              specific_lambdas |-> os_environ.SPECIFIC_LAMBDAS]

\* ------------------------------------------------------------------- ledger
\* A DynamoDB query of one (function_name, environment) with
\* ScanIndexForward=False and Limit=limit: the newest items first.
query(items, limit) ==
    LET n == IF Len(items) < limit THEN Len(items) ELSE limit
    IN  [i \in 1..n |-> items[Len(items) - i + 1]]

\* Mutant: one item is enough, and the newest is returned.
previous_deployment_any(deployments) ==
    IF Len(deployments) >= 1 THEN <<deployments[1]>> ELSE <<>>

\* Mutant: the newest item is taken for the previous one.
previous_deployment_newest(deployments) ==
    IF Len(deployments) >= 2 THEN <<deployments[1]>> ELSE <<>>

\* get_previous_deployment, given the answer of its query: deployments[1]
\* (0-based) when there are two items, else None (modelled as <<>>).
previous_deployment(deployments) ==
    IF Len(deployments) >= 2 THEN <<deployments[2]>> ELSE <<>>

\* get_existing_hash, given the answer of its query: the code_hash of items[0],
\* '' when there is none.
latest_code_hash(items) ==
    IF Len(items) > 0 THEN items[1].code_hash ELSE NoHash

\* The item record_deployment puts (its key and its code_hash; the timestamp
\* and the commit, branch and developer attributes are not read back).
deployment_item(function_name, env, hash) ==
    [function_name |-> function_name, environment |-> env, code_hash |-> hash]

\* --------------------------------------------------------------------- main
RunBound == IF Cardinality(lambda_functions) = 1 THEN MaxRuns ELSE MaxRunsFanOut

Init ==
    /\ s3 = {}
    /\ table = [k \in LedgerKeys |-> <<>>]
    /\ lambda_code = [k \in LedgerKeys |-> NoCode]
    /\ tmp = {}
    /\ tree = [d \in LambdaDirs |-> "aaa"]
    /\ phase = "idle"
    /\ run = 0
    /\ lambda_functions \in LambdaLayouts
    /\ environment = "dev"
    /\ is_rollback = FALSE
    /\ specific_lambdas = <<>>
    /\ pc = [d \in LambdaDirs |-> "done"]
    /\ code_hash = [d \in LambdaDirs |-> NoHash]
    /\ existing_hash = [d \in LambdaDirs |-> NoHash]
    /\ outcome = [d \in LambdaDirs |-> "none"]
    /\ calls = [d \in LambdaDirs |-> <<>>]
    /\ collected = {}
    /\ success_count = 0
    /\ failure_count = 0
    /\ exit_code = -1
    /\ appended = [k \in LedgerKeys |-> <<>>]
    /\ deployed = [k \in LedgerKeys |-> 0]
    /\ activated = {}
    /\ fs = <<>>
    /\ walk = <<>>
    /\ digest = <<>>
    /\ last_run = <<>>

\* A new process may start when none is running.
CanStart == phase \in {"idle", "exited", "aborted"} /\ run < RunBound

\* The process-local state of a process whose deploy_all never ran.
NoFanOut ==
    /\ pc' = [d \in LambdaDirs |-> "done"]
    /\ code_hash' = [d \in LambdaDirs |-> NoHash]
    /\ existing_hash' = [d \in LambdaDirs |-> NoHash]
    /\ outcome' = [d \in LambdaDirs |-> "none"]
    /\ calls' = [d \in LambdaDirs |-> <<>>]
    /\ collected' = {}
    /\ success_count' = 0
    /\ failure_count' = 0
    /\ tmp' = {}

\* main, when LambdaDeployer() raises ConfigurationError from
\* _get_environment_config or _validate_s3_bucket: sys.exit(1).
main_configuration_error ==
    /\ CanStart
    /\ \E os_environ \in OsEnvirons, head_bucket_ok \in BOOLEAN :
          get_environment_config(os_environ).error = "ConfigurationError" \/ ~head_bucket_ok
    /\ run' = run + 1
    /\ phase' = "aborted"
    /\ exit_code' = 1
    /\ NoFanOut
    /\ UNCHANGED <<hasher, last_run, aws, tree, config, history>>

\* main, when _create_aws_client raises DeploymentError: sys.exit(2).
main_deployment_error ==
    /\ CanStart
    /\ \E os_environ \in OsEnvirons : get_environment_config(os_environ).error = "none"
    /\ run' = run + 1
    /\ phase' = "aborted"
    /\ exit_code' = 2
    /\ NoFanOut
    /\ UNCHANGED <<hasher, last_run, aws, tree, config, history>>

\* main up to the executor.submit calls of deploy_all: the configuration is
\* read, the clients are made, the bucket is validated, the functions are
\* found and one future per function is submitted.  The process starts with
\* no archive of its own in TEMP_DIR (create_zip opens its archive with mode
\* 'w', so a file left by an earlier process is never read).
main ==
    /\ CanStart
    /\ \E os_environ \in OsEnvirons :
          LET cfg == get_environment_config(os_environ)
          IN  /\ cfg.error = "none"
              /\ environment' = cfg.environment
              /\ is_rollback' = cfg.is_rollback
              /\ specific_lambdas' = cfg.specific_lambdas
    /\ \E t \in [lambda_functions -> Fingerprints] :
          tree' = [d \in LambdaDirs |-> IF d \in lambda_functions THEN t[d] ELSE tree[d]]
    /\ run' = run + 1
    /\ phase' = "fanout"
    /\ pc' = [d \in LambdaDirs |-> IF d \in lambda_functions THEN "queued" ELSE "done"]
    /\ code_hash' = [d \in LambdaDirs |-> NoHash]
    /\ existing_hash' = [d \in LambdaDirs |-> NoHash]
    /\ outcome' = [d \in LambdaDirs |-> "none"]
    /\ calls' = [d \in LambdaDirs |-> <<>>]
    /\ collected' = {}
    /\ success_count' = 0
    /\ failure_count' = 0
    /\ exit_code' = -1
    /\ tmp' = {}
    /\ UNCHANGED <<hasher, last_run, aws, lambda_functions, history>>

\* ----------------------------------------------------------- process_lambda
function_name(d) == basename(d)
ledger_key(d) == <<function_name(d), environment>>

\* Mutant: the pool does not count the futures its workers are running.
Running_none == {}

\* The futures a worker thread is running.
Running == {d \in lambda_functions : pc[d] \notin {"queued", "done"}}

\* process_lambda returns: True unless the outcome is Fail.
return(d, o) ==
    /\ pc' = [pc EXCEPT ![d] = "done"]
    /\ outcome' = [outcome EXCEPT ![d] = o]

\* The record of one writing AWS call (upload_file, update_function_code,
\* put_item) in calls: the operation, the bucket, function or table key it
\* addresses, the S3 key or code_hash it carries, and whether it succeeded.
call(op, name, key, ok) == [op |-> op, name |-> name, key |-> key, ok |-> ok]

issue(d, c) == calls' = [calls EXCEPT ![d] = Append(@, c)]

\* Mutant: the allow-list is ignored.
not_in_specific_lambdas_never(name) == FALSE

\* Is function_name skipped by the allow-list of a rollback?
not_in_specific_lambdas(name) ==
    is_rollback /\ specific_lambdas # <<>> /\ name \notin Range(specific_lambdas)

\* A worker takes the future of d and runs process_lambda up to its first call.
\* The workers take queued futures as long as the executor lives: during the
\* as_completed loop and while the with-block is left.
process_lambda(d) ==
    /\ phase \in {"fanout", "shutdown"}
    /\ pc[d] = "queued"
    /\ Cardinality(Running) < MAX_WORKERS
    /\ IF not_in_specific_lambdas(function_name(d))
       THEN return(d, "Skip")
       ELSE /\ pc' = [pc EXCEPT ![d] = IF is_rollback THEN "get_previous_deployment"
                                       ELSE "calculate_hash"]
            /\ UNCHANGED outcome
    /\ UNCHANGED <<hasher, last_run, aws, tmp, tree, phase, run, config, locals, calls, counts,
                   exit_code, history>>

\* Mutant: the rollback steps one item back from the item whose artifact the
\* target runs, instead of taking the second newest item.
get_previous_deployment_walks(d) ==
    /\ pc[d] = "get_previous_deployment"
    /\ \E ok \in BOOLEAN :
          LET items == table[ledger_key(d)]
              running == {i \in DOMAIN items :
                            s3_key(function_name(d), items[i].code_hash)
                               = lambda_code[lambda_name(function_name(d), environment)]}
              at == IF running = {} THEN Len(items)
                    ELSE CHOOSE i \in running : \A j \in running : j <= i
              found == IF ok /\ at >= 2 THEN <<items[at - 1]>> ELSE <<>>
          IN  IF found # <<>>
              THEN /\ code_hash' = [code_hash EXCEPT ![d] = found[1].code_hash]
                   /\ pc' = [pc EXCEPT ![d] = "update_lambda_function"]
                   /\ UNCHANGED outcome
              ELSE /\ return(d, "Fail")
                   /\ UNCHANGED code_hash
    /\ UNCHANGED <<hasher, last_run, aws, tmp, tree, phase, run, config, existing_hash, calls,
                   counts, exit_code, history>>

\* Rollback: the query of get_previous_deployment and the branch on its answer.
get_previous_deployment(d) ==
    /\ pc[d] = "get_previous_deployment"
    /\ \E ok \in BOOLEAN :
          LET found == IF ok THEN previous_deployment(query(table[ledger_key(d)], 2))
                       ELSE <<>>
          IN  IF found # <<>>
              THEN /\ code_hash' = [code_hash EXCEPT ![d] = found[1].code_hash]
                   /\ pc' = [pc EXCEPT ![d] = "update_lambda_function"]
                   /\ UNCHANGED outcome
              ELSE /\ return(d, "Fail")
                   /\ UNCHANGED code_hash
    /\ UNCHANGED <<hasher, last_run, aws, tmp, tree, phase, run, config, existing_hash, calls, counts,
                   exit_code, history>>

\* Forward deploy: calculate_hash, which raises DeploymentError when the tree
\* cannot be read.
calculate_hash(d) ==
    /\ pc[d] = "calculate_hash"
    /\ \E ok \in BOOLEAN :
          IF ok
          THEN /\ code_hash' = [code_hash EXCEPT ![d] = tree[d]]
               /\ pc' = [pc EXCEPT ![d] = "get_existing_hash"]
               /\ UNCHANGED outcome
          ELSE /\ return(d, "Fail")
               /\ UNCHANGED code_hash
    /\ UNCHANGED <<hasher, last_run, aws, tmp, tree, phase, run, config, existing_hash, calls, counts,
                   exit_code, history>>

\* Mutant: the comparison is inverted.
new_code_detected_inverted(hash, existing) == hash = existing

\* Mutant: every run deploys, changed or not.
new_code_detected_always(hash, existing) == TRUE

\* Does process_lambda deploy, given its code_hash and the answer of get_existing_hash?
new_code_detected(hash, existing) == hash # existing

\* Forward deploy: the query of get_existing_hash; '' on ClientError.
get_existing_hash(d) ==
    /\ pc[d] = "get_existing_hash"
    /\ \E ok \in BOOLEAN :
          existing_hash' = [existing_hash EXCEPT ![d] =
                               IF ok THEN latest_code_hash(query(table[ledger_key(d)], 1))
                               ELSE NoHash]
    /\ pc' = [pc EXCEPT ![d] = "compare"]
    /\ UNCHANGED <<hasher, last_run, aws, tmp, tree, phase, run, config, code_hash, outcome, calls, counts,
                   exit_code, history>>

\* Forward deploy: the comparison of code_hash with existing_hash, which is
\* not read again.
compare(d) ==
    /\ pc[d] = "compare"
    /\ IF new_code_detected(code_hash[d], existing_hash[d])
       THEN /\ pc' = [pc EXCEPT ![d] = "create_zip"]
            /\ UNCHANGED outcome
       ELSE return(d, "Skip")
    /\ existing_hash' = [existing_hash EXCEPT ![d] = NoHash]
    /\ UNCHANGED <<hasher, last_run, aws, tmp, tree, phase, run, config, code_hash, calls, counts,
                   exit_code, history>>

\* create_zip: writes the archive, or raises with the archive absent or partial.
create_zip(d) ==
    /\ pc[d] = "create_zip"
    /\ \/ /\ tmp' = tmp \cup {zip_path(function_name(d))}
          /\ pc' = [pc EXCEPT ![d] = "upload_to_s3"]
          /\ UNCHANGED outcome
       \/ /\ tmp' \in {tmp, tmp \cup {zip_path(function_name(d))}}
          /\ return(d, "Fail")
    /\ UNCHANGED <<hasher, last_run, aws, tree, phase, run, config, locals, calls, counts,
                   exit_code, history>>

\* upload_to_s3: s3.upload_file puts the archive under s3_key, whatever the
\* bucket holds; False on error.
upload_to_s3(d) ==
    /\ pc[d] = "upload_to_s3"
    /\ LET key == s3_key(function_name(d), code_hash[d])
       IN  \E ok \in BOOLEAN :
              /\ ok => zip_path(function_name(d)) \in tmp
              /\ issue(d, call("upload_file", s3_bucket(environment), key, ok))
              /\ IF ok
                 THEN /\ s3' = s3 \cup {<<s3_bucket(environment), key>>}
                      /\ pc' = [pc EXCEPT ![d] = "update_lambda_function"]
                      /\ UNCHANGED outcome
                 ELSE /\ return(d, "Fail")
                      /\ UNCHANGED s3
    /\ UNCHANGED <<hasher, last_run, table, lambda_code, tmp, tree, phase, run, config, locals,
                   counts, exit_code, history>>

\* Mutant: the result of update_function_code is dropped, a forward deploy
\* goes on to record_deployment whether the update succeeded or not.
update_lambda_function_unchecked(d) ==
    /\ pc[d] = "update_lambda_function"
    /\ LET key == s3_key(basename(d), code_hash[d])
           name == lambda_name(basename(d), environment)
       IN  \E ok \in BOOLEAN :
              /\ ok => <<s3_bucket(environment), key>> \in s3
              /\ calls' = [calls EXCEPT ![d] =
                              Append(@, [op |-> "update_function_code", name |-> name,
                                         key |-> key, ok |-> ok])]
              /\ IF ok
                 THEN /\ lambda_code' = [lambda_code EXCEPT ![name] = key]
                      /\ activated' = activated \cup {<<name, key>>}
                 ELSE UNCHANGED <<lambda_code, activated>>
              /\ IF is_rollback
                 THEN /\ pc' = [pc EXCEPT ![d] = "done"]
                      /\ outcome' = [outcome EXCEPT ![d] = IF ok THEN "Rollback" ELSE "Fail"]
                 ELSE /\ pc' = [pc EXCEPT ![d] = "record_deployment"]
                      /\ UNCHANGED outcome
    /\ UNCHANGED <<hasher, last_run, s3, table, tmp, tree, phase, run, config, locals, counts,
                   exit_code, appended, deployed>>

\* Mutant: a rollback goes on to record_deployment like a forward deploy.
update_lambda_function_records(d) ==
    /\ pc[d] = "update_lambda_function"
    /\ LET key == s3_key(basename(d), code_hash[d])
           name == lambda_name(basename(d), environment)
       IN  \E ok \in BOOLEAN :
              /\ ok => <<s3_bucket(environment), key>> \in s3
              /\ calls' = [calls EXCEPT ![d] =
                              Append(@, [op |-> "update_function_code", name |-> name,
                                         key |-> key, ok |-> ok])]
              /\ IF ok
                 THEN /\ lambda_code' = [lambda_code EXCEPT ![name] = key]
                      /\ activated' = activated \cup {<<name, key>>}
                      /\ pc' = [pc EXCEPT ![d] = "record_deployment"]
                      /\ UNCHANGED outcome
                 ELSE /\ pc' = [pc EXCEPT ![d] = "done"]
                      /\ outcome' = [outcome EXCEPT ![d] = "Fail"]
                      /\ UNCHANGED <<lambda_code, activated>>
    /\ UNCHANGED <<hasher, last_run, s3, table, tmp, tree, phase, run, config, locals, counts,
                   exit_code, appended, deployed>>

\* update_lambda_function: update_function_code of function_name_environment
\* with the object at s3_key, which must exist; False on error.  A rollback
\* returns its result, a forward deploy goes on to record_deployment.
update_lambda_function(d) ==
    /\ pc[d] = "update_lambda_function"
    /\ LET key == s3_key(function_name(d), code_hash[d])
           name == lambda_name(function_name(d), environment)
       IN  \E ok \in BOOLEAN :
              /\ ok => <<s3_bucket(environment), key>> \in s3
              /\ issue(d, call("update_function_code", name, key, ok))
              /\ IF ok
                 THEN /\ lambda_code' = [lambda_code EXCEPT ![name] = key]
                      /\ activated' = activated \cup {<<name, key>>}
                      /\ IF is_rollback
                         THEN return(d, "Rollback")
                         ELSE /\ pc' = [pc EXCEPT ![d] = "record_deployment"]
                              /\ UNCHANGED outcome
                 ELSE /\ return(d, "Fail")
                      /\ UNCHANGED <<lambda_code, activated>>
    /\ UNCHANGED <<hasher, last_run, s3, table, tmp, tree, phase, run, config, locals, counts,
                   exit_code, appended, deployed>>

\* Mutant: put_item replaces the newest item of (function_name, environment)
\* instead of adding one.
record_deployment_replaces(d) ==
    /\ pc[d] = "record_deployment"
    /\ LET k == <<basename(d), environment>>
           item == deployment_item(basename(d), environment, code_hash[d])
       IN  \E ok \in BOOLEAN :
              /\ calls' = [calls EXCEPT ![d] =
                              Append(@, [op |-> "put_item", name |-> k,
                                         key |-> item.code_hash, ok |-> ok])]
              /\ IF ok
                 THEN /\ table' = [table EXCEPT ![k] =
                                      IF @ = <<>> THEN <<item>>
                                      ELSE [@ EXCEPT ![Len(@)] = item]]
                      /\ appended' = [appended EXCEPT ![k] = Append(@, item)]
                      /\ pc' = [pc EXCEPT ![d] = "remove"]
                      /\ UNCHANGED outcome
                 ELSE /\ pc' = [pc EXCEPT ![d] = "done"]
                      /\ outcome' = [outcome EXCEPT ![d] = "Fail"]
                      /\ UNCHANGED <<table, appended>>
    /\ UNCHANGED <<hasher, last_run, s3, lambda_code, tmp, tree, phase, run, config, locals, counts,
                   exit_code, deployed, activated>>

\* record_deployment: put_item of the deployment; False on error.
record_deployment(d) ==
    /\ pc[d] = "record_deployment"
    /\ LET item == deployment_item(function_name(d), environment, code_hash[d])
       IN  \E ok \in BOOLEAN :
              /\ issue(d, call("put_item", ledger_key(d), item.code_hash, ok))
              /\ IF ok
                 THEN /\ table' = [table EXCEPT ![ledger_key(d)] = Append(@, item)]
                      /\ appended' = [appended EXCEPT ![ledger_key(d)] = Append(@, item)]
                      /\ pc' = [pc EXCEPT ![d] = "remove"]
                      /\ UNCHANGED outcome
                 ELSE /\ return(d, "Fail")
                      /\ UNCHANGED <<table, appended>>
    /\ UNCHANGED <<hasher, last_run, s3, lambda_code, tmp, tree, phase, run, config, locals, counts,
                   exit_code, deployed, activated>>

\* The cleanup of a deploy that went through: os.remove(zip_path), whose
\* OSError (the file is not there) is logged and dropped; process_lambda
\* returns True.
remove(d) ==
    /\ pc[d] = "remove"
    /\ tmp' = tmp \ {zip_path(function_name(d))}
    /\ return(d, "Deploy")
    /\ deployed' = [deployed EXCEPT ![ledger_key(d)] = @ + 1]
    /\ UNCHANGED <<hasher, last_run, aws, tree, phase, run, config, locals, calls, counts,
                   exit_code, appended, activated>>

\* ---------------------------------------------------------------- deploy_all
\* Mutant: a skipped unit is reported as a failure.
result_skip_fails(d) == outcome[d] \notin {"Fail", "Skip"}

\* future.result() of process_lambda.
result(d) == outcome[d] # "Fail"

\* One iteration of the as_completed loop: a finished future is counted.
as_completed(d) ==
    /\ phase = "fanout"
    /\ d \in lambda_functions \ collected
    /\ pc[d] = "done"
    /\ collected' = collected \cup {d}
    /\ IF result(d)
       THEN success_count' = success_count + 1 /\ UNCHANGED failure_count
       ELSE failure_count' = failure_count + 1 /\ UNCHANGED success_count
    /\ UNCHANGED <<hasher, last_run, aws, tmp, tree, phase, run, config, pc, locals, outcome, calls,
                   exit_code, history>>

\* The exit status of main once deploy_all has returned.
exit_status(failures) == 0

\* Mutant: the summary is logged as soon as one future has been collected.
deploy_all_return_early ==
    /\ phase = "fanout"
    /\ collected # {}
    /\ phase' = "exited"
    /\ exit_code' = 0
    /\ UNCHANGED <<hasher, last_run, aws, tmp, tree, run, config, pc, locals, outcome, calls, counts,
                   history>>

\* The loop is exhausted: deploy_all logs the summary and returns, main
\* returns and the process exits.
deploy_all_return ==
    /\ phase = "fanout"
    /\ collected = lambda_functions
    /\ phase' = "exited"
    /\ exit_code' = exit_status(failure_count)
    /\ UNCHANGED <<hasher, last_run, aws, tmp, tree, run, config, pc, locals, outcome, calls, counts,
                   history>>

Next ==
    \/ main_configuration_error
    \/ main_deployment_error
    \/ main
    \/ \E d \in LambdaDirs : process_lambda(d)
    \/ \E d \in LambdaDirs : get_previous_deployment(d)
    \/ \E d \in LambdaDirs : calculate_hash(d)
    \/ \E d \in LambdaDirs : get_existing_hash(d)
    \/ \E d \in LambdaDirs : compare(d)
    \/ \E d \in LambdaDirs : create_zip(d)
    \/ \E d \in LambdaDirs : upload_to_s3(d)
    \/ \E d \in LambdaDirs : update_lambda_function(d)
    \/ \E d \in LambdaDirs : record_deployment(d)
    \/ \E d \in LambdaDirs : remove(d)
    \/ \E d \in LambdaDirs : as_completed(d)
    \/ deploy_all_return

Spec == Init /\ [][Next]_vars

\* ------------------------------------------------- one fan-out, followed alone
\* An account nothing was deployed to yet, for the functions named.
NewAccount(names) ==
    /\ s3 = {}
    /\ table = [k \in names \X Environments |-> <<>>]
    /\ lambda_code = [k \in names \X Environments |-> NoCode]
    /\ appended = [k \in names \X Environments |-> <<>>]
    /\ deployed = [k \in names \X Environments |-> 0]
    /\ activated = {}

\* The process when deploy_all has submitted one future for each directory
\* of dirs and none has started.
Submitted(dirs) ==
    /\ phase = "fanout"
    /\ run = 1
    /\ lambda_functions = dirs
    /\ tmp = {}
    /\ pc = [d \in dirs |-> "queued"]
    /\ code_hash = [d \in dirs |-> NoHash]
    /\ existing_hash = [d \in dirs |-> NoHash]
    /\ outcome = [d \in dirs |-> "none"]
    /\ calls = [d \in dirs |-> <<>>]
    /\ collected = {}
    /\ success_count = 0
    /\ failure_count = 0
    /\ exit_code = -1
    /\ fs = <<>>
    /\ walk = <<>>
    /\ digest = <<>>
    /\ last_run = <<>>

\* The steps of the fan-out: the workers and the as_completed loop.
Workers ==
    \/ \E d \in lambda_functions : process_lambda(d)
    \/ \E d \in lambda_functions : get_previous_deployment(d)
    \/ \E d \in lambda_functions : calculate_hash(d)
    \/ \E d \in lambda_functions : get_existing_hash(d)
    \/ \E d \in lambda_functions : compare(d)
    \/ \E d \in lambda_functions : create_zip(d)
    \/ \E d \in lambda_functions : upload_to_s3(d)
    \/ \E d \in lambda_functions : update_lambda_function(d)
    \/ \E d \in lambda_functions : record_deployment(d)
    \/ \E d \in lambda_functions : remove(d)

Drain ==
    \/ Workers
    \/ \E d \in lambda_functions : as_completed(d)
    \/ deploy_all_return

\* A repository in which two domains each have a function directory f1:
\* find_lambda_functions returns both, process_lambda names both f1.
SameNameDirs == {"lambdas/billing/f1", "lambdas/orders/f1"}

SameNameInit ==
    /\ NewAccount({"f1"})
    /\ Submitted(SameNameDirs)
    /\ tree \in [SameNameDirs -> Fingerprints]
    /\ environment = "dev"
    /\ is_rollback \in BOOLEAN
    /\ specific_lambdas = <<>>

SameNameSpec == SameNameInit /\ [][Drain]_vars

\* A repository with more function directories than the pool has workers.
PoolDirs ==
    {"lambdas/billing/f1", "lambdas/orders/f2", "lambdas/orders/f3", "lambdas/orders/f4",
     "lambdas/orders/f5", "lambdas/orders/f6"}

PoolNames == {basename(d) : d \in PoolDirs}

\* The account after f1 was deployed to dev with aaa and then with bbb, and
\* nothing else was.
DeployedTwice ==
    LET k == <<"f1", "dev">>
        items == <<deployment_item("f1", "dev", "aaa"), deployment_item("f1", "dev", "bbb")>>
    IN  /\ s3 = {<<s3_bucket("dev"), s3_key("f1", "aaa")>>,
                 <<s3_bucket("dev"), s3_key("f1", "bbb")>>}
        /\ table = [j \in PoolNames \X Environments |-> IF j = k THEN items ELSE <<>>]
        /\ lambda_code = [j \in PoolNames \X Environments |->
                             IF j = k THEN s3_key("f1", "bbb") ELSE NoCode]
        /\ appended = [j \in PoolNames \X Environments |-> IF j = k THEN items ELSE <<>>]
        /\ deployed = [j \in PoolNames \X Environments |-> IF j = k THEN 2 ELSE 0]
        /\ activated = {<<lambda_name("f1", "dev"), s3_key("f1", "aaa")>>,
                        <<lambda_name("f1", "dev"), s3_key("f1", "bbb")>>}

\* A rollback of dev over that repository.
PoolInit ==
    /\ DeployedTwice
    /\ Submitted(PoolDirs)
    /\ tree = [d \in PoolDirs |-> IF basename(d) = "f1" THEN "bbb" ELSE "aaa"]
    /\ environment = "dev"
    /\ is_rollback = TRUE
    /\ specific_lambdas = <<>>

PoolNext ==
    \/ \E d \in lambda_functions : process_lambda(d)
    \/ \E d \in lambda_functions : get_previous_deployment(d)
    \/ \E d \in lambda_functions : update_lambda_function(d)
    \/ \E d \in lambda_functions : as_completed(d)
    \/ deploy_all_return

PoolSpec == PoolInit /\ [][PoolNext]_vars

\* ------------------------------------------------------------------ signals
\* main installs no signal handler.  SIGINT raises KeyboardInterrupt in the
\* main thread: the as_completed loop is abandoned and the with-block is left
\* through ThreadPoolExecutor.__exit__, that is shutdown(wait=True).
sigint ==
    /\ phase = "fanout"
    /\ phase' = "shutdown"
    /\ UNCHANGED <<hasher, last_run, aws, tmp, tree, run, config, pc, locals, outcome, calls, counts,
                   exit_code, history>>

\* shutdown(wait=True) has joined the workers, which have run every future,
\* the queued ones too; KeyboardInterrupt is no Exception, so none of main's
\* except clauses takes it and the interpreter ends on it.
executor_exit ==
    /\ phase = "shutdown"
    /\ \A d \in lambda_functions : pc[d] = "done"
    /\ phase' = "exited"
    /\ exit_code' = 130
    /\ UNCHANGED <<hasher, last_run, aws, tmp, tree, run, config, pc, locals, outcome, calls, counts,
                   history>>

\* SIGTERM has its default disposition: the process ends at once, its
\* workers wherever they are.
sigterm ==
    /\ phase \in {"fanout", "shutdown"}
    /\ phase' = "exited"
    /\ exit_code' = 143
    /\ pc' = [d \in DOMAIN pc |-> IF pc[d] \in {"queued", "done"} THEN pc[d] ELSE "killed"]
    /\ UNCHANGED <<hasher, last_run, aws, tmp, tree, run, config, locals, outcome, calls, counts,
                   history>>

\* One fan-out, forward or rollback, over the two function directories of a
\* new account.
FanOutInit ==
    /\ NewAccount(FunctionNames)
    /\ Submitted(LambdaDirs)
    /\ tree \in [LambdaDirs -> Fingerprints]
    /\ environment = "dev"
    /\ is_rollback \in BOOLEAN
    /\ specific_lambdas = <<>>

SignalNext ==
    \/ Drain
    \/ sigint
    \/ executor_exit
    \/ sigterm

SignalSpec == FanOutInit /\ [][SignalNext]_vars

\* ------------------------------------------------------------------ fairness
\* The fan-outs, of two directories or of six, that keep going: a worker
\* that has taken a future runs it to its end (every AWS call returns, with
\* its result or an error after the configured retries), a free worker takes
\* a queued future, and the main thread consumes the futures that are done.
LiveInit == FanOutInit \/ PoolInit

LiveSpec == LiveInit /\ [][Drain]_vars /\ WF_vars(Drain)

\* ------------------------------------------- calculate_hash, file by file
\* One function directory: its own files and two subdirectories, which may
\* be absent, of one file each.
SubDirs == {"a", "b"}
FilesOf(dir) ==
    CASE dir = "." -> {"lambda_function.py", "util.py"}
      [] dir = "a" -> {"x.py"}
      [] dir = "b" -> {"y.py"}

\* The contents a file may have.
Bytes == {<<1>>, <<2>>}

\* The source trees: the directories present, each with the bytes of its files.
SourceTrees ==
    UNION {[{"."} \cup subs -> UNION {[FilesOf(dir) -> Bytes] : dir \in {"."} \cup SubDirs}]
              : subs \in SUBSET SubDirs}

IsSourceTree(t) == \A dir \in DOMAIN t : DOMAIN t[dir] = FilesOf(dir)

\* The sequences that list every element of a set once.
Listings(S) ==
    {q \in UNION {[1..Cardinality(S) -> S]} : \A x \in S : \E i \in DOMAIN q : q[i] = x}

\* os.walk(directory), top-down: the directory itself, then its
\* subdirectories in the order os.scandir lists them; with each directory
\* its file names, in the order os.scandir lists them.
Walks(t) ==
    {[i \in 1..Len(roots) |-> [root |-> roots[i], files |-> files[roots[i]]]] :
        roots \in {<<".">> \o q : q \in Listings(DOMAIN t \ {"."})},
        files \in {g \in [DOMAIN t -> UNION {Listings(FilesOf(dir)) : dir \in DOMAIN t}] :
                      \A dir \in DOMAIN t : g[dir] \in Listings(FilesOf(dir))}}

\* The file names in the order of Python's string comparison.
NameOrder == <<"lambda_function.py", "util.py", "x.py", "y.py">>

\* sorted(files)
sorted(files) == SelectSeq(NameOrder, LAMBDA n : \E i \in DOMAIN files : files[i] = n)

\* The bytes sha256_hash.update receives for the files of one directory.
RECURSIVE update_files(_, _, _)
update_files(t, root, files) ==
    IF files = <<>> THEN <<>>
    ELSE t[root][Head(files)] \o update_files(t, root, Tail(files))

\* The bytes sha256_hash.update receives over the whole walk.
RECURSIVE update_walk(_, _)
update_walk(t, w) ==
    IF w = <<>> THEN <<>>
    ELSE update_files(t, Head(w).root, sorted(Head(w).files)) \o update_walk(t, Tail(w))

\* sha256_hash.hexdigest(): SHA-256 taken as collision-free, so two digests
\* are equal exactly when the hashed byte streams are equal; the digest is
\* written as the stream it stands for.
hexdigest(stream) == <<"sha256", stream>>

\* The hashing of one tree under two enumerations: everything else stands still.
HashInit ==
    /\ s3 = {}
    /\ table = [k \in LedgerKeys |-> <<>>]
    /\ lambda_code = [k \in LedgerKeys |-> NoCode]
    /\ tmp = {}
    /\ tree = [d \in LambdaDirs |-> "aaa"]
    /\ phase = "idle"
    /\ run = 0
    /\ lambda_functions = {"lambdas/billing/f1"}
    /\ environment = "dev"
    /\ is_rollback = FALSE
    /\ specific_lambdas = <<>>
    /\ pc = [d \in LambdaDirs |-> "done"]
    /\ code_hash = [d \in LambdaDirs |-> NoHash]
    /\ existing_hash = [d \in LambdaDirs |-> NoHash]
    /\ outcome = [d \in LambdaDirs |-> "none"]
    /\ calls = [d \in LambdaDirs |-> <<>>]
    /\ collected = {}
    /\ success_count = 0
    /\ failure_count = 0
    /\ exit_code = -1
    /\ appended = [k \in LedgerKeys |-> <<>>]
    /\ deployed = [k \in LedgerKeys |-> 0]
    /\ activated = {}
    /\ fs \in {t \in SourceTrees : IsSourceTree(t)}
    /\ walk \in Walks(fs) \X Walks(fs)
    /\ digest = <<>>
    /\ last_run = <<>>

\* calculate_hash(directory), called once under each enumeration.
calculate_hash_walk ==
    /\ digest = <<>>
    /\ digest' = <<hexdigest(update_walk(fs, walk[1])), hexdigest(update_walk(fs, walk[2]))>>
    /\ UNCHANGED <<aws, tmp, tree, phase, run, config, pc, locals, outcome, calls, counts,
                   exit_code, history, fs, walk, last_run>>

HashSpec == HashInit /\ [][calculate_hash_walk]_vars

\* ---------------------------------------------------------- successive runs
MaxSuccessiveRuns == 3   \* processes run one after the other on one account

\* The account after f1 was deployed to dev with aaa, bbb and ccc and to prod
\* with aaa and bbb: every item has its artifact in the bucket and every
\* target runs the newest.
Deployments(k) ==
    LET item(h) == deployment_item(k[1], k[2], h)
    IN  CASE k = <<"f1", "dev">> -> <<item("aaa"), item("bbb"), item("ccc")>>
          [] k = <<"f1", "prod">> -> <<item("aaa"), item("bbb")>>
          [] OTHER -> <<>>

DeployedBefore ==
    /\ table = [k \in LedgerKeys |-> Deployments(k)]
    /\ s3 = UNION {{<<s3_bucket(k[2]), s3_key(k[1], Deployments(k)[n].code_hash)>> :
                      n \in DOMAIN Deployments(k)} : k \in LedgerKeys}
    /\ lambda_code = [k \in LedgerKeys |->
                         IF Deployments(k) = <<>> THEN NoCode
                         ELSE s3_key(k[1], Deployments(k)[Len(Deployments(k))].code_hash)]
    /\ appended = [k \in LedgerKeys |-> Deployments(k)]
    /\ deployed = [k \in LedgerKeys |-> Len(Deployments(k))]
    /\ activated = UNION {{<<lambda_name(k[1], k[2]),
                             s3_key(k[1], Deployments(k)[n].code_hash)>> :
                             n \in DOMAIN Deployments(k)} : k \in LedgerKeys}

\* The repository has the one function directory of f1.
SuccessiveDirs == {"lambdas/billing/f1"}

\* The first process on that account: a forward deploy or a rollback of dev.
SuccessiveInit ==
    /\ DeployedBefore
    /\ Submitted(SuccessiveDirs)
    /\ tree \in [SuccessiveDirs -> Fingerprints]
    /\ environment = "dev"
    /\ is_rollback \in BOOLEAN
    /\ specific_lambdas = <<>>

\* main of the next process, started when the one before has exited: as main
\* above, up to the executor.submit calls of deploy_all.  What the process
\* before was and issued is kept in last_run.
main_again ==
    /\ phase = "exited"
    /\ run < MaxSuccessiveRuns
    /\ \E os_environ \in OsEnvirons :
          LET cfg == get_environment_config(os_environ)
          IN  /\ cfg.error = "none"
              /\ environment' = cfg.environment
              /\ is_rollback' = cfg.is_rollback
              /\ specific_lambdas' = cfg.specific_lambdas
    /\ \E t \in [lambda_functions -> Fingerprints] : tree' = t
    /\ last_run' = << [is_rollback |-> is_rollback, calls |-> calls] >>
    /\ run' = run + 1
    /\ phase' = "fanout"
    /\ pc' = [d \in lambda_functions |-> "queued"]
    /\ code_hash' = [d \in lambda_functions |-> NoHash]
    /\ existing_hash' = [d \in lambda_functions |-> NoHash]
    /\ outcome' = [d \in lambda_functions |-> "none"]
    /\ calls' = [d \in lambda_functions |-> <<>>]
    /\ collected' = {}
    /\ success_count' = 0
    /\ failure_count' = 0
    /\ exit_code' = -1
    /\ tmp' = {}
    /\ UNCHANGED <<hasher, aws, lambda_functions, history>>

SuccessiveNext ==
    \/ Drain
    \/ main_again

SuccessiveSpec == SuccessiveInit /\ [][SuccessiveNext]_vars

\* =================================================================== claims
\* A run whose deploy_all has started.
InRun == phase \in {"fanout", "exited"}

CallsOf(d, op) == SelectSeq(calls[d], LAMBDA c : c.op = op)

\* The items of d's (function, environment) as they were when this run began.
ItemsAtStart(d) ==
    LET put == SelectSeq(calls[d], LAMBDA c : c.op = "put_item" /\ c.ok)
    IN  SubSeq(table[ledger_key(d)], 1, Len(table[ledger_key(d)]) - Len(put))

\* The run is a rollback with a non-empty allow-list that does not name d's function.
Excluded(d) ==
    /\ is_rollback
    /\ Len(specific_lambdas) > 0
    /\ \A i \in 1..Len(specific_lambdas) : specific_lambdas[i] # basename(d)

Eligible(d) == ~Excluded(d)

\* The last three items are deploys of three distinct fingerprints A, B, C.
ThreeDeploys(items) ==
    /\ Len(items) >= 3
    /\ LET n == Len(items)
       IN  Cardinality({items[n - 2].code_hash, items[n - 1].code_hash,
                        items[n].code_hash}) = 3

\* C1. Rollback target: once a function has been deployed to the environment
\* with three distinct fingerprints A, B, C in that order, a rollback run
\* issues for it only target updates of function_environment to B's artifact
\* key (so never to C's) and at most one of them; the update it is about to
\* issue carries B's fingerprint, and a unit that ended in Rollback has issued
\* exactly one, successful, and left the target at B's artifact.
C1_RollbackTarget ==
    \A d \in lambda_functions :
        LET items == table[ledger_key(d)]
            B == items[Len(items) - 1]
            C == items[Len(items)]
            updates == calls[d]
        IN  (InRun /\ is_rollback /\ Eligible(d) /\ ThreeDeploys(items)) =>
               /\ Len(updates) <= 1
               /\ \A i \in 1..Len(updates) :
                     /\ updates[i].op = "update_function_code"
                     /\ updates[i].name = <<basename(d), environment>>
                     /\ updates[i].key = <<basename(d), B.code_hash, "function.zip">>
                     /\ updates[i].key # <<basename(d), C.code_hash, "function.zip">>
               /\ pc[d] = "update_lambda_function" => code_hash[d] = B.code_hash
               /\ pc[d] = "done" => outcome[d] \in {"Rollback", "Fail"}
               /\ outcome[d] = "Rollback" =>
                     /\ Len(updates) = 1 /\ updates[1].ok
                     /\ lambda_code[<<basename(d), environment>>]
                           = <<basename(d), B.code_hash, "function.zip">>

C1_Witness ==
    \E d \in lambda_functions :
        /\ InRun /\ is_rollback /\ ThreeDeploys(table[ledger_key(d)])
        /\ outcome[d] = "Rollback"

\* C2. The ledger is append-only: every item ever put is still in the table,
\* unchanged and in the order of the puts, and the number of items of a
\* (function, environment) is the number of process_lambda calls that ended
\* in Deploy for it (plus the deploys that have put their item and have not
\* returned yet).
C2_LedgerAppendOnly ==
    \A k \in LedgerKeys :
        /\ table[k] = appended[k]
        /\ Len(table[k]) = deployed[k]
              + Cardinality({d \in LambdaDirs : pc[d] = "remove" /\ ledger_key(d) = k})

C2_Witness ==
    \E k \in LedgerKeys :
        /\ phase = "exited" /\ is_rollback
        /\ Len(table[k]) = 2 /\ deployed[k] = 2
        /\ \E d \in lambda_functions : ledger_key(d) = k /\ outcome[d] = "Rollback"

\* The fingerprint of the newest item of d's (function, environment), '' when
\* it has none.
Latest(d) ==
    LET items == table[<<basename(d), environment>>]
    IN  IF Len(items) = 0 THEN NoHash ELSE items[Len(items)].code_hash

C4_LedgerAfterActivation ==
    /\ \A k \in LedgerKeys : \A i \in 1..Len(table[k]) :
          LET it == table[k][i]
              key == s3_key(it.function_name, it.code_hash)
          IN  /\ <<s3_bucket(it.environment), key>> \in s3
              /\ <<lambda_name(it.function_name, it.environment), key>> \in activated
    /\ \A d \in LambdaDirs :
          /\ \A i \in 1..Len(calls[d]) : calls[d][i].op = "put_item" =>
                \E u, a \in 1..(i - 1) :
                    /\ u < a
                    /\ calls[d][u].op = "upload_file" /\ calls[d][u].ok
                    /\ calls[d][a].op = "update_function_code" /\ calls[d][a].ok
          /\ (\E i \in 1..Len(calls[d]) :
                 /\ calls[d][i].op \in {"upload_file", "update_function_code"}
                 /\ ~calls[d][i].ok) =>
                /\ CallsOf(d, "put_item") = <<>>
                /\ table[ledger_key(d)] = ItemsAtStart(d)

C4_Witness ==
    \E d \in lambda_functions :
        /\ outcome[d] = "Fail"
        /\ \E i \in 1..Len(calls[d]) :
              calls[d][i].op = "update_function_code" /\ ~calls[d][i].ok
        /\ Len(table[ledger_key(d)]) = 1
        /\ table[ledger_key(d)][1].code_hash # code_hash[d]

\* C5. Write-once artifacts: every upload_file the script issues is for a key
\* that is not yet in the bucket.
C5_WriteOnce ==
    [][\A d \in LambdaDirs :
          (pc[d] = "upload_to_s3" /\ pc'[d] # "upload_to_s3") =>
             <<s3_bucket(environment), s3_key(basename(d), code_hash[d])>> \notin s3]_vars

\* The next step of the process_lambda call of d.
StepOf(d) ==
    \/ process_lambda(d) \/ get_previous_deployment(d) \/ calculate_hash(d)
    \/ get_existing_hash(d) \/ compare(d) \/ create_zip(d) \/ upload_to_s3(d)
    \/ update_lambda_function(d) \/ record_deployment(d) \/ remove(d)

\* C6. Failure isolation and accounting: while the futures run, a unit that has
\* not returned can always take its next step, whatever the other units did,
\* and the counters count the collected futures; when deploy_all has returned
\* every discovered unit has returned, failure_count is the number of units
\* that ended in Fail, success_count the number that ended in Skip, Deploy or
\* Rollback, and the two add up to the number of discovered units.
C6_FailureAccounting ==
    /\ \A d \in lambda_functions :
          (phase = "fanout" /\ pc[d] # "done") => ENABLED StepOf(d)
    /\ InRun =>
          /\ failure_count = Cardinality({d \in collected : outcome[d] = "Fail"})
          /\ success_count =
                Cardinality({d \in collected : outcome[d] \in {"Skip", "Deploy", "Rollback"}})
    /\ phase = "exited" =>
          /\ \A d \in lambda_functions :
                pc[d] = "done" /\ outcome[d] \in {"Skip", "Deploy", "Rollback", "Fail"}
          /\ failure_count = Cardinality({d \in lambda_functions : outcome[d] = "Fail"})
          /\ success_count =
                Cardinality({d \in lambda_functions :
                                outcome[d] \in {"Skip", "Deploy", "Rollback"}})
          /\ success_count + failure_count = Cardinality(lambda_functions)

C6_Witness ==
    /\ phase = "exited"
    /\ \E x, y \in lambda_functions :
          /\ outcome[x] = "Fail"
          /\ \E i \in 1..Len(calls[x]) : calls[x][i].op = "upload_file" /\ ~calls[x][i].ok
          /\ outcome[y] = "Deploy"
    /\ failure_count = 1 /\ success_count = 1

\* C7. Exit status: the process that ran deploy_all exits non-zero exactly
\* when at least one unit failed.
C7_ExitStatus ==
    phase = "exited" => (exit_code # 0 <=> failure_count > 0)

\* C8. No rollback target: in a rollback run, an eligible unit whose
\* (function, environment) has fewer than two items never reaches
\* update_lambda_function, issues no target update and no put, ends in Fail
\* and is counted in failure_count.
C8_NoRollbackTarget ==
    \A d \in lambda_functions :
        (InRun /\ is_rollback /\ Eligible(d) /\ Len(table[ledger_key(d)]) < 2) =>
           /\ pc[d] \in {"queued", "get_previous_deployment", "done"}
           /\ calls[d] = <<>>
           /\ pc[d] = "done" => outcome[d] = "Fail"
           /\ d \in collected =>
                 /\ failure_count = Cardinality({e \in collected : outcome[e] = "Fail"})
                 /\ failure_count >= 1

C8_Witness ==
    \E d \in lambda_functions :
        /\ phase = "exited" /\ is_rollback /\ Eligible(d)
        /\ Len(table[ledger_key(d)]) = 1
        /\ outcome[d] = "Fail" /\ failure_count >= 1

\* C9. Allow-list scoping: in a rollback run with a non-empty allow-list, a
\* discovered function that is not in the list never gets past the entry of
\* process_lambda: it makes no query, issues no upload, no target update and
\* no put, computes no hash and ends in Skip.
C9_AllowListScoping ==
    \A d \in lambda_functions :
        (InRun /\ Excluded(d)) =>
           /\ pc[d] \in {"queued", "done"}
           /\ pc[d] = "done" => outcome[d] = "Skip"
           /\ calls[d] = <<>>
           /\ code_hash[d] = NoHash

C9_Witness ==
    \E d \in lambda_functions :
        /\ phase = "exited" /\ Excluded(d)
        /\ outcome[d] = "Skip"
        /\ Len(table[ledger_key(d)]) >= 2

\* C10. Forward deploy of a changed unit: in a forward run, a unit whose
\* fingerprint differs from that of the newest item of its (function,
\* environment) at the start of the run (or that has no item) is never
\* skipped: after the comparison it is on the deploy path and it ends in Deploy
\* or Fail.  A unit that ended in Deploy has issued exactly, in this order, one
\* upload_file to function/fingerprint/function.zip, one update_function_code
\* of function_environment with that key and one put_item with that
\* fingerprint, all successful, and their effects are in place.
C10_ForwardDeploy ==
    \A d \in lambda_functions :
        LET items == ItemsAtStart(d)
            latest == IF Len(items) = 0 THEN NoHash ELSE items[Len(items)].code_hash
            key == <<basename(d), tree[d], "function.zip">>
            target == <<basename(d), environment>>
        IN  (InRun /\ ~is_rollback /\ code_hash[d] # NoHash /\ tree[d] # latest) =>
               /\ code_hash[d] = tree[d]
               /\ outcome[d] # "Skip"
               /\ pc[d] = "done" => outcome[d] \in {"Deploy", "Fail"}
               /\ outcome[d] = "Deploy" =>
                     /\ calls[d] =
                           << [op |-> "upload_file", name |-> s3_bucket(environment),
                               key |-> key, ok |-> TRUE],
                              [op |-> "update_function_code", name |-> target,
                               key |-> key, ok |-> TRUE],
                              [op |-> "put_item", name |-> target,
                               key |-> tree[d], ok |-> TRUE] >>
                     /\ <<s3_bucket(environment), key>> \in s3
                     /\ lambda_code[target] = key
                     /\ Len(table[target]) = Len(items) + 1
                     /\ table[target][Len(table[target])].code_hash = tree[d]

C10_Witness ==
    \E d \in lambda_functions :
        /\ phase = "exited" /\ ~is_rollback
        /\ outcome[d] = "Deploy"
        /\ Len(table[ledger_key(d)]) = 2
        /\ table[ledger_key(d)][1].code_hash # table[ledger_key(d)][2].code_hash

\* The environment a run with this os.environ selects, and the value of its
\* bucket variable.
Selected(e) ==
    IF e.IS_ROLLBACK THEN e.ENVIRONMENT
    ELSE IF e.BRANCH_NAME = "qa" THEN "qa"
    ELSE IF e.BRANCH_NAME = "main" THEN "prod"
    ELSE "dev"

BucketOf(e) ==
    CASE Selected(e) = "dev" -> e.S3_BUCKET["S3_BUCKET_DEV"]
      [] Selected(e) = "prod" -> e.S3_BUCKET["S3_BUCKET_PROD"]
      [] OTHER -> "unset"

Invalid(e) == Selected(e) \notin {"dev", "qa", "prod"} \/ BucketOf(e) # "named"

\* C11. A configuration failure is fatal and precedes all work: an os.environ
\* that selects no environment of dev, qa, prod, or whose bucket variable for
\* the selected environment is unset or blank, makes _get_environment_config
\* raise; a run whose fan-out started has the configuration of a valid
\* os.environ; a process that aborted has processed no unit (no future was
\* started, no call issued, nothing counted); and the step that aborts a
\* process (on a configuration error or a failed bucket validation) leaves
\* the bucket, the functions and the ledger as they were.
C11_ConfigurationFatal ==
    /\ [](/\ \A e \in OsEnvirons :
               Invalid(e) => get_environment_config(e).error = "ConfigurationError"
          /\ InRun =>
                /\ environment \in {"dev", "qa", "prod"}
                /\ \E e \in OsEnvirons :
                      /\ ~Invalid(e) /\ Selected(e) = environment
                      /\ e.IS_ROLLBACK = is_rollback
                      /\ e.SPECIFIC_LAMBDAS = specific_lambdas
          /\ phase = "aborted" =>
                /\ exit_code \in {1, 2}
                /\ \A d \in LambdaDirs :
                      pc[d] = "done" /\ outcome[d] = "none" /\ calls[d] = <<>>
                /\ collected = {} /\ success_count = 0 /\ failure_count = 0)
    /\ [][phase' = "aborted" =>
            /\ s3' = s3 /\ table' = table /\ lambda_code' = lambda_code
            /\ appended' = appended /\ activated' = activated]_vars

C11_Witness ==
    /\ phase = "aborted" /\ exit_code = 1 /\ run >= 2
    /\ \E k \in LedgerKeys : Len(table[k]) = 1 /\ lambda_code[k] # NoCode

\* C12. Fingerprint determinism: two enumerations of one source tree (the
\* same relative paths, the same bytes) give calculate_hash the same digest.
C12_FingerprintDeterminism ==
    digest # <<>> => digest[1] = digest[2]

\* C13. Disjoint per-unit namespaces: two distinct discovered units never
\* use the same archive path, artifact key prefix, ledger key or target name,
\* so that the archive a unit has packed is still there when it uploads it,
\* and, every worker having returned, the target of a unit that ended in
\* Deploy runs the artifact that unit activated.
C13_DisjointNamespaces ==
    /\ \A x, y \in lambda_functions :
          (InRun /\ x # y) =>
             /\ zip_path(basename(x)) # zip_path(basename(y))
             /\ basename(x) # basename(y)
             /\ <<basename(x), environment>> # <<basename(y), environment>>
    /\ \A x \in lambda_functions :
          /\ (InRun /\ pc[x] = "upload_to_s3") => zip_path(basename(x)) \in tmp
          /\ (phase = "exited" /\ outcome[x] = "Deploy") =>
                lambda_code[<<basename(x), environment>>]
                   = <<basename(x), code_hash[x], "function.zip">>

\* The same, without the comparison of the names: what the interleaving does.
C13_NoInterference ==
    \A x \in lambda_functions :
        /\ (InRun /\ pc[x] = "upload_to_s3") => zip_path(basename(x)) \in tmp
        /\ (phase = "exited" /\ outcome[x] = "Deploy") =>
              lambda_code[<<basename(x), environment>>]
                 = <<basename(x), code_hash[x], "function.zip">>

\* C14. Scoped cleanup: when the processing of a unit of a forward run has
\* ended after its archive was packed and its upload attempted, the archive
\* is no longer in TEMP_DIR.
C14_ScopedCleanup ==
    \A d \in lambda_functions :
        (InRun /\ ~is_rollback /\ pc[d] = "done" /\ calls[d] # <<>>) =>
           zip_path(basename(d)) \notin tmp

\* C15. External-call failures fail the unit: a unit one of whose writing
\* calls (upload_file, update_function_code, put_item) failed has returned
\* with Fail; and the step in which a ledger query of the unit fails (the
\* query of get_existing_hash answering nothing although the ledger has an
\* item) ends the unit in Fail.
C15_ExternalFailuresFail ==
    /\ [](\A d \in lambda_functions :
             (InRun /\ \E i \in 1..Len(calls[d]) : ~calls[d][i].ok) =>
                pc[d] = "done" /\ outcome[d] = "Fail")
    /\ [][\A d \in lambda_functions :
             (/\ pc[d] = "get_existing_hash" /\ pc'[d] # "get_existing_hash"
              /\ Latest(d) # NoHash /\ existing_hash'[d] = NoHash) =>
                pc'[d] = "done" /\ outcome'[d] = "Fail"]_vars

\* C16. Rollback frame: in a rollback run a unit only queries the ledger and
\* updates its target: it never hashes, packs, uploads or records, it issues
\* at most one call, an update_function_code; a unit that ended in Rollback
\* issued exactly one, successful, to the artifact of the second newest item
\* of its (function, environment), which is in the bucket, and its target
\* runs it; and no step of a rollback run changes the bucket, the ledger or
\* TEMP_DIR.
C16_RollbackFrame ==
    /\ [](\A d \in lambda_functions :
             (InRun /\ is_rollback) =>
                /\ pc[d] \in {"queued", "get_previous_deployment",
                              "update_lambda_function", "done"}
                /\ Len(calls[d]) <= 1
                /\ \A i \in 1..Len(calls[d]) : calls[d][i].op = "update_function_code"
                /\ zip_path(basename(d)) \notin tmp
                /\ outcome[d] \notin {"Deploy"}
                /\ outcome[d] = "Rollback" =>
                      LET items == table[<<basename(d), environment>>]
                          key == <<basename(d), items[Len(items) - 1].code_hash,
                                   "function.zip">>
                      IN  /\ Len(items) >= 2
                          /\ calls[d] = << [op |-> "update_function_code",
                                            name |-> <<basename(d), environment>>,
                                            key |-> key, ok |-> TRUE] >>
                          /\ <<s3_bucket(environment), key>> \in s3
                          /\ lambda_code[<<basename(d), environment>>] = key)
    /\ [][(is_rollback /\ InRun /\ is_rollback') =>
             s3' = s3 /\ table' = table /\ tmp' = tmp /\ appended' = appended]_vars

C16_Witness ==
    \E d \in lambda_functions :
        LET items == table[ledger_key(d)]
        IN  /\ phase = "exited" /\ is_rollback /\ outcome[d] = "Rollback"
            /\ Len(items) >= 2
            /\ items[Len(items)].code_hash # items[Len(items) - 1].code_hash
            /\ lambda_code[ledger_key(d)] # s3_key(basename(d), items[Len(items)].code_hash)

\* C17. Full drain before reporting: a fan-out that has started reaches the
\* summary, whatever the units' failures; when the summary is produced every
\* discovered unit has been processed to its end and collected, each counted
\* once; and within a run a future that was taken is never queued again and
\* a collected future stays collected.
C17_FullDrain ==
    /\ (phase = "fanout") ~> (phase = "exited")
    /\ [](phase = "exited" =>
            /\ \A d \in lambda_functions :
                  pc[d] = "done" /\ outcome[d] # "none" /\ d \in collected
            /\ collected = lambda_functions
            /\ success_count + failure_count = Cardinality(lambda_functions))
    /\ [][\A d \in lambda_functions :
             (phase = "fanout" /\ run' = run) =>
                /\ pc[d] # "queued" => pc'[d] # "queued"
                /\ pc[d] = "done" => (pc'[d] = "done" /\ outcome'[d] = outcome[d])
                /\ d \in collected => d \in collected']_vars

C17_Witness ==
    /\ phase = "exited" /\ ~is_rollback
    /\ Cardinality(lambda_functions) = 2
    /\ failure_count = 2 /\ success_count = 0
    /\ \E x, y \in lambda_functions : Len(calls[x]) = 1 /\ Len(calls[y]) = 3

\* The units whose process_lambda call has begun and has not returned.
InProgress == {d \in lambda_functions : pc[d] \notin {"queued", "done"}}

\* The order of the positions of one process_lambda call.
Sequence ==
    {<<"queued", "done">>, <<"queued", "get_previous_deployment">>,
     <<"get_previous_deployment", "update_lambda_function">>,
     <<"get_previous_deployment", "done">>, <<"update_lambda_function", "done">>,
     <<"queued", "calculate_hash">>, <<"calculate_hash", "get_existing_hash">>,
     <<"calculate_hash", "done">>, <<"get_existing_hash", "compare">>,
     <<"compare", "done">>, <<"compare", "create_zip">>, <<"create_zip", "upload_to_s3">>,
     <<"create_zip", "done">>, <<"upload_to_s3", "update_lambda_function">>,
     <<"upload_to_s3", "done">>, <<"update_lambda_function", "record_deployment">>,
     <<"record_deployment", "remove">>, <<"record_deployment", "done">>,
     <<"remove", "done">>}

\* C18. Bounded concurrency: at every moment of the fan-out at most five
\* units are in progress, the others are queued or done, and a unit that is
\* collected is done; every step moves at most one unit, one position
\* forward in the order of process_lambda.
C18_BoundedConcurrency ==
    /\ [](/\ Cardinality(InProgress) <= 5
          /\ \A d \in collected : pc[d] = "done")
    /\ [][/\ Cardinality({d \in lambda_functions : pc'[d] # pc[d]}) <= 1
          /\ \A d \in lambda_functions :
                pc'[d] # pc[d] => <<pc[d], pc'[d]>> \in Sequence]_vars

C18_Witness ==
    /\ phase = "fanout"
    /\ Cardinality(lambda_functions) > 5
    /\ Cardinality(InProgress) = 5
    /\ \E d \in lambda_functions : pc[d] = "queued" /\ ~ENABLED process_lambda(d)
    /\ \E d \in InProgress : pc[d] = "update_lambda_function"

\* C19. Shutdown: once a shutdown signal has arrived no queued unit is
\* started; and no unit that was started is cut off before its end.
C19_Shutdown ==
    /\ [][\A d \in lambda_functions :
             (phase = "shutdown" /\ pc[d] = "queued") => pc'[d] = "queued"]_vars
    /\ [](\A d \in lambda_functions : pc[d] # "killed")

\* C19, first half alone: no queued unit is started after SIGINT.
C19_NoStartAfterSignal ==
    [][\A d \in lambda_functions :
          (phase = "shutdown" /\ pc[d] = "queued") => pc'[d] = "queued"]_vars

\* C19, second half alone: no started unit is cut off.
C19_RunsToCompletion ==
    \A d \in lambda_functions : pc[d] # "killed"

\* C20. Target/ledger agreement on Skip: in a forward run, the target of a
\* unit that ended in Skip runs the artifact of the unit's present fingerprint.
C20_SkipAgreement ==
    \A d \in lambda_functions :
        (InRun /\ ~is_rollback /\ outcome[d] = "Skip") =>
           lambda_code[<<basename(d), environment>>]
              = <<basename(d), tree[d], "function.zip">>

\* C20 after a rollback: as C20_SkipAgreement, for a target that no update
\* has touched since the last rollback of the unit moved it.
C20_SkipAfterRollback ==
    \A d \in lambda_functions :
        LET items == table[<<basename(d), environment>>]
        IN  (/\ InRun /\ ~is_rollback /\ outcome[d] = "Skip" /\ Len(items) >= 2
             /\ lambda_code[<<basename(d), environment>>]
                   = <<basename(d), items[Len(items) - 1].code_hash, "function.zip">>) =>
               items[Len(items) - 1].code_hash = tree[d]

\* The target updates among a sequence of calls.
Updates(cs) == SelectSeq(cs, LAMBDA c : c.op = "update_function_code")

\* The process before this one was a rollback too, so no forward deploy lies
\* between the two.
SecondRollback == InRun /\ is_rollback /\ last_run # <<>> /\ last_run[1].is_rollback

\* C21. Repeated rollback: when a rollback run follows a rollback run with no
\* forward deploy in between, then for a function with at least two ledger
\* records every target update the second run issues carries the artifact of
\* the second newest record, the same artifact as every update the first run
\* issued to that target; and where the first run's update went through, the
\* target runs that artifact during and after the second run, so it is never
\* moved further back.
C21_RepeatedRollback ==
    SecondRollback =>
       \A d \in lambda_functions :
          LET items == table[ledger_key(d)]
              first == Updates(last_run[1].calls[d])
              second == Updates(calls[d])
          IN  Len(items) >= 2 =>
                 /\ \A i \in DOMAIN second :
                       second[i].key
                          = s3_key(function_name(d), items[Len(items) - 1].code_hash)
                 /\ \A i \in DOMAIN second, j \in DOMAIN first :
                       second[i].name = first[j].name => second[i].key = first[j].key
                 /\ \A j \in DOMAIN first :
                       (first[j].ok /\ first[j].name = lambda_name(function_name(d), environment))
                          => lambda_code[first[j].name] = first[j].key

\* Two rollbacks of f1 in dev, one after the other, both went through: the
\* ledger holds three fingerprints and the target runs the second newest.
C21_Witness ==
    /\ SecondRollback
    /\ phase = "exited"
    /\ \E d \in lambda_functions :
          LET items == table[ledger_key(d)]
          IN  /\ ThreeDeploys(items)
              /\ outcome[d] = "Rollback"
              /\ Len(Updates(last_run[1].calls[d])) = 1
              /\ Updates(last_run[1].calls[d])[1].ok
              /\ Len(Updates(calls[d])) = 1
              /\ Updates(calls[d])[1].ok
              /\ Updates(calls[d])[1].name = Updates(last_run[1].calls[d])[1].name
              /\ lambda_code[lambda_name(function_name(d), environment)]
                    = s3_key(function_name(d), items[Len(items) - 1].code_hash)

====
